---- MODULE Spec2Model ----
(***************************************************************************)
(* GeminiLiveService (src/services/geminiService.ts): the session          *)
(* lifecycle (connect / handleOpen / handleMessage / stop), the playback   *)
(* cursor nextStartTime and the tool-call handling, as a state machine.    *)
(* Every await of the source is a point where other callbacks may run.     *)
(***************************************************************************)
EXTENDS Integers, Sequences, FiniteSets, TLC

\* ---- bounds of the model ----
MaxConnects == 2      \* connect() calls in one behaviour
MaxStops == 2         \* stop() calls in one behaviour
MaxMsgs == 2          \* inbound messages in one behaviour
MaxFrames == 1        \* capture frames in one behaviour
MaxClock == 2         \* largest value of the output clock
MaxOps == 3           \* connect(), stop(), messages and frames in one behaviour of Spec
MaxChunks == 3        \* inbound messages in one behaviour of SpecPlay
MaxDur == 1           \* largest duration of a decoded buffer
MaxCalls == 3         \* largest number of function calls in one message
FrameLen == 2         \* samples in one captured frame
MaxCaptured == 3      \* capture frames in one behaviour of SpecCapture

\* null, the value of every unset field (lines 37-44)
Null == 0

VARIABLES
    \* fields of GeminiLiveService (lines 37-44)
    inputAudioContext, outputAudioContext, stream, processor, source,
    nextStartTime, sessionPromise, currentSession,
    \* the platform: suspended connect() calls, transports, held resources, clock
    cpc, tstate, opened, heldIn, heldOut, liveTracks, liveProcs, liveSources,
    clock, handlers,   \* clock: outputAudioContext.currentTime as last read
    \* observations of the host and of the transport (status: the last status
    \* given to onStatusChange; nResponses: the responses given to sendToolResponse;
    \* levels: the values given to onAudioLevel; audioLog: the sendRealtimeInput calls)
    status, scheduled, nResponses, audioLog, lastHandled,
    nConnects, nStops, nMsgs, nFrames, nReports, levels,
    lastTerm, stopRun, termRun

fields == <<inputAudioContext, outputAudioContext, stream, processor, source,
            nextStartTime, sessionPromise, currentSession>>
platform == <<cpc, tstate, opened, heldIn, heldOut, liveTracks, liveProcs, liveSources,
              clock, handlers>>
observed == <<status, scheduled, nResponses, audioLog, lastHandled,
              nConnects, nStops, nMsgs, nFrames, nReports, levels,
              lastTerm, stopRun, termRun>>
vars == <<fields, platform, observed>>

Ids == 1..MaxConnects

\* the tool name handleMessage recognizes (lines 9, 166)
reportEmergencyTool == "reportEmergency"

\* ---- inputs ----
CallNames == {reportEmergencyTool, "other"}
CallArgs == {"Flood", "Fire"}
FunctionCall == [id : 1..MaxCalls, name : CallNames, args : CallArgs]

\* the function-call lists a message can carry: ids are unique in a message
CallLists ==
    {<<>>} \cup
    UNION {{c \in [1..n -> FunctionCall] :
               \A i, j \in 1..n : i # j => c[i].id # c[j].id} : n \in 1..MaxCalls}

NoAudio == [has |-> FALSE, dur |-> 0, ok |-> TRUE]
BadAudio == [has |-> TRUE, dur |-> 0, ok |-> FALSE]     \* decodeAudioData rejects it
AudioParts == {NoAudio, BadAudio} \cup [has : {TRUE}, dur : 1..MaxDur, ok : {TRUE}]
NoToolCall == [has |-> FALSE, functionCalls |-> <<>>]
ToolCalls == {NoToolCall} \cup [has : {TRUE}, functionCalls : CallLists]
LiveServerMessage == [audio : AudioParts, toolCall : ToolCalls]

\* the messages of the lifecycle specification: at most one function call each
OneCall == {c \in CallLists : Len(c) <= 1 /\ \A i \in DOMAIN c : c[i].id = 1 /\ c[i].args = "Flood"}
ShortMessage == [audio : AudioParts,
                 toolCall : {NoToolCall} \cup [has : {TRUE}, functionCalls : OneCall]]

\* the messages that carry an audio chunk, decodable or not, alone or with one
\* recognized function call
DecodeMessage ==
    [audio : AudioParts \ {NoAudio},
     toolCall : {NoToolCall,
                 [has |-> TRUE,
                  functionCalls |-> <<[id |-> 1, name |-> reportEmergencyTool,
                                       args |-> "Flood"]>>]}]

NoHandled == [calls |-> <<>>, responses |-> <<>>, reports |-> <<>>, batches |-> <<>>]

Init ==
    /\ inputAudioContext = Null /\ outputAudioContext = Null
    /\ stream = Null /\ processor = Null /\ source = Null
    /\ nextStartTime = 0
    /\ sessionPromise = Null /\ currentSession = Null
    /\ cpc = [k \in Ids |-> "idle"]
    /\ tstate = [k \in Ids |-> "none"]
    /\ opened = {}
    /\ heldIn = {} /\ heldOut = {} /\ liveTracks = {}
    /\ liveProcs = {} /\ liveSources = {}
    /\ clock = 0
    /\ handlers = {}
    /\ status = ""
    /\ scheduled = <<>>
    /\ nResponses = 0
    /\ audioLog = <<>>
    /\ lastHandled = NoHandled
    /\ nConnects = 0 /\ nStops = 0 /\ nMsgs = 0 /\ nFrames = 0
    /\ nReports = 0 /\ levels = <<>>
    /\ lastTerm = 0 /\ stopRun = 0 /\ termRun = 0

\* ---- helpers ----

\* the last operation notified term terminal statuses and was not a stop()
Observe(term) ==
    /\ lastTerm' = term
    /\ stopRun' = 0
    /\ termRun' = 0

\* the host and the peer may start one more operation
MoreOps == nConnects + nStops + nMsgs + nFrames < MaxOps

\* Live: the transport handle is stored, the transport is open, capture is wired
IsLive ==
    /\ currentSession # Null
    /\ tstate[currentSession] = "open"
    /\ processor # Null

\* a connect() call is between its first line and its return
Connecting == \E k \in Ids : cpc[k] \in {"resumeIn", "resumeOut", "getMic", "awaitSession"}

\* a cursor that takes the clock's time whatever its own value
ClockStart(nst, now) == now

\* Math.max(this.nextStartTime, currentTime) (line 148)
MaxStart(nst, now) == IF nst >= now THEN nst ELSE now

\* the loop without the test of the call's name
RECURSIVE RespondToAll(_)
RespondToAll(calls) ==
    IF calls = <<>> THEN [responses |-> <<>>, reports |-> <<>>]
    ELSE LET fc == Head(calls)
             rest == RespondToAll(Tail(calls))
         IN [responses |-> <<[id |-> fc.id, name |-> fc.name, status |-> "success"]>>
                             \o rest.responses,
             reports |-> <<fc.args>> \o rest.reports]

\* the loop over message.toolCall.functionCalls (lines 164-175): the responses
\* pushed and the arguments onReportSubmitted was called with, in loop order
RECURSIVE CollectResponses(_)
CollectResponses(calls) ==
    IF calls = <<>> THEN [responses |-> <<>>, reports |-> <<>>]
    ELSE LET fc == Head(calls)
             rest == CollectResponses(Tail(calls))
         IN IF fc.name = reportEmergencyTool
            THEN [responses |-> <<[id |-> fc.id, name |-> fc.name, status |-> "success"]>>
                                \o rest.responses,
                  reports |-> <<fc.args>> \o rest.reports]
            ELSE rest

\* one sendToolResponse call per response instead of one for the message
OneBatchEach(responses, session) ==
    IF session # Null THEN [i \in 1..Len(responses) |-> <<responses[i]>>] ELSE <<>>

\* lines 177-181: the sendToolResponse calls made for the responses of one message,
\* each call given as its functionResponses
ToolResponseBatches(responses, session) ==
    IF Len(responses) > 0 /\ session # Null THEN <<responses>> ELSE <<>>

\* the responses carried by a sequence of sendToolResponse calls
RECURSIVE SumLen(_)
SumLen(batches) ==
    IF batches = <<>> THEN 0 ELSE Len(Head(batches)) + SumLen(Tail(batches))

\* a decode whose failure is not noticed
DecodeAlwaysSucceeds(ok, ctx) == ctx # Null

\* lines 150-159: the try block runs to its end (no decode error, no field that
\* became null during the await)
DecodeSucceeds(ok, ctx) == ok /\ ctx # Null

\* a cursor left where it was
KeepCursor(nst, dur) == nst

\* this.nextStartTime += buffer.duration (line 156)
AdvanceCursor(nst, dur) == nst + dur

\* the captured frames: FrameLen samples each
Samples == {-1, 0, 1}
Frames == [1..FrameLen -> Samples]

\* lines 117-121: the sum of the squared samples; rms = sqrt(sum / length) is 0
\* exactly when the sum is, and grows with it
RECURSIVE SumSquares(_, _)
SumSquares(frame, i) ==
    IF i = 0 THEN 0 ELSE frame[i] * frame[i] + SumSquares(frame, i - 1)
Level(frame) == SumSquares(frame, Len(frame))

\* a send that does not look at the transport handle
SendAlways(log, n, session) ==
    Append(log, [frame |-> n, sess |-> session, mimeType |-> "audio/pcm;rate=16000"])

\* a send that repeats the frame
SendTwice(log, n, session) ==
    IF session # Null
    THEN log \o << [frame |-> n, sess |-> session, mimeType |-> "audio/pcm;rate=16000"],
                  [frame |-> n, sess |-> session, mimeType |-> "audio/pcm;rate=16000"] >>
    ELSE log

\* lines 129-136: sendRealtimeInput for frame n, if the transport handle is set
SendRealtimeInput(log, n, session) ==
    IF session # Null
    THEN Append(log, [frame |-> n, sess |-> session, mimeType |-> "audio/pcm;rate=16000"])
    ELSE log

\* ---- connect() (lines 54-104) ----

\* lines 55-64, up to the first await that suspends
ConnectStart ==
    /\ nConnects < MaxConnects
    /\ LET k == nConnects + 1 IN
       /\ nConnects' = k
       /\ inputAudioContext' = k
       /\ outputAudioContext' = k
       /\ heldIn' = heldIn \cup {k}
       /\ heldOut' = heldOut \cup {k}
       /\ clock' = 0
       /\ \E sIn, sOut \in BOOLEAN :
            /\ cpc' = [cpc EXCEPT ![k] = IF sIn THEN "resumeIn"
                                         ELSE IF sOut THEN "resumeOut" ELSE "getMic"]
            /\ status' = IF sIn \/ sOut THEN "Initializing Audio..."
                                          ELSE "Requesting Mic..."
    /\ scheduled' = <<>>
    /\ Observe(0)
    /\ UNCHANGED <<stream, processor, source, nextStartTime, sessionPromise,
                   currentSession, tstate, opened, liveTracks, liveProcs, liveSources,
                   handlers, nResponses, audioLog, lastHandled,
                   nStops, nMsgs, nFrames, nReports, levels>>

\* line 61 resumes; line 62 reads this.outputAudioContext.state
ConnectResumedIn(k) ==
    /\ cpc[k] = "resumeIn"
    /\ IF outputAudioContext = Null
       THEN /\ cpc' = [cpc EXCEPT ![k] = "failed"]
            /\ UNCHANGED status
       ELSE \E sOut \in BOOLEAN :
            /\ cpc' = [cpc EXCEPT ![k] = IF sOut THEN "resumeOut" ELSE "getMic"]
            /\ status' = IF sOut THEN status ELSE "Requesting Mic..."
    /\ Observe(0)
    /\ UNCHANGED <<fields, tstate, opened, heldIn, heldOut, liveTracks, liveProcs,
                   liveSources, clock, handlers, scheduled, nResponses, audioLog,
                   lastHandled, nConnects, nStops, nMsgs, nFrames, nReports, levels>>

\* line 62 resumes; lines 64-65
ConnectResumedOut(k) ==
    /\ cpc[k] = "resumeOut"
    /\ cpc' = [cpc EXCEPT ![k] = "getMic"]
    /\ status' = "Requesting Mic..."
    /\ Observe(0)
    /\ UNCHANGED <<fields, tstate, opened, heldIn, heldOut, liveTracks, liveProcs,
                   liveSources, clock, handlers, scheduled, nResponses, audioLog,
                   lastHandled, nConnects, nStops, nMsgs, nFrames, nReports, levels>>

\* getUserMedia resolves: lines 65-103 up to the await of the session promise
MicGranted(k) ==
    /\ cpc[k] = "getMic"
    /\ stream' = k
    /\ liveTracks' = liveTracks \cup {k}
    /\ status' = "Connecting to HQ..."
    /\ sessionPromise' = k
    /\ tstate' = [tstate EXCEPT ![k] = "connecting"]
    /\ cpc' = [cpc EXCEPT ![k] = "awaitSession"]
    /\ Observe(0)
    /\ UNCHANGED <<inputAudioContext, outputAudioContext, processor, source,
                   nextStartTime, currentSession, opened, heldIn, heldOut, liveProcs,
                   liveSources, clock, handlers, scheduled, nResponses, audioLog,
                   lastHandled, nConnects, nStops, nMsgs, nFrames, nReports, levels>>

\* getUserMedia rejects: connect() throws at line 65
MicDenied(k) ==
    /\ cpc[k] = "getMic"
    /\ cpc' = [cpc EXCEPT ![k] = "failed"]
    /\ Observe(0)
    /\ UNCHANGED <<fields, tstate, opened, heldIn, heldOut, liveTracks, liveProcs,
                   liveSources, clock, handlers, status, scheduled, nResponses,
                   audioLog, lastHandled, nConnects, nStops, nMsgs, nFrames,
                   nReports, levels>>

\* the session promise resolves: line 103
ConnectResolved(k) ==
    /\ cpc[k] = "awaitSession"
    /\ k \in opened
    /\ currentSession' = k
    /\ cpc' = [cpc EXCEPT ![k] = "done"]
    /\ Observe(0)
    /\ UNCHANGED <<inputAudioContext, outputAudioContext, stream, processor, source,
                   nextStartTime, sessionPromise, tstate, opened, heldIn, heldOut,
                   liveTracks, liveProcs, liveSources, clock, handlers, status,
                   scheduled, nResponses, audioLog, lastHandled, nConnects, nStops,
                   nMsgs, nFrames, nReports, levels>>

\* ---- handleOpen (lines 106-141), called by the transport's onopen ----
handleOpen(k) ==
    /\ tstate[k] = "connecting"
    /\ tstate' = [tstate EXCEPT ![k] = "open"]
    /\ opened' = opened \cup {k}
    /\ status' = "Live"
    /\ IF inputAudioContext = Null \/ stream = Null
       THEN UNCHANGED <<source, processor, liveSources, liveProcs>>
       ELSE /\ source' = k
            /\ processor' = k
            /\ liveSources' = liveSources \cup {k}
            /\ liveProcs' = liveProcs \cup {k}
    /\ Observe(0)
    /\ UNCHANGED <<inputAudioContext, outputAudioContext, stream, nextStartTime,
                   sessionPromise, currentSession, cpc, heldIn, heldOut, liveTracks,
                   clock, handlers, scheduled, nResponses, audioLog, lastHandled,
                   nConnects, nStops, nMsgs, nFrames, nReports, levels>>

\* ---- stop() (lines 185-210) ----

\* lines 186-208: the guarded releases and the clearing of the fields
Release ==
    /\ liveProcs' = IF processor # Null THEN liveProcs \ {processor} ELSE liveProcs
    /\ liveSources' = IF source # Null THEN liveSources \ {source} ELSE liveSources
    /\ liveTracks' = IF stream # Null THEN liveTracks \ {stream} ELSE liveTracks
    /\ heldIn' = IF inputAudioContext # Null THEN heldIn \ {inputAudioContext} ELSE heldIn
    /\ heldOut' = IF outputAudioContext # Null THEN heldOut \ {outputAudioContext} ELSE heldOut
    /\ processor' = Null
    /\ source' = Null
    /\ stream' = Null
    /\ inputAudioContext' = Null
    /\ outputAudioContext' = Null
    /\ currentSession' = Null

stop ==
    /\ nStops' = nStops + 1
    /\ Release
    /\ status' = "Disconnected"
    /\ lastTerm' = 1
    /\ stopRun' = IF IsLive THEN 1 ELSE IF stopRun > 0 THEN stopRun + 1 ELSE 0
    /\ termRun' = IF IsLive THEN 1 ELSE IF stopRun > 0 THEN termRun + 1 ELSE 0
    /\ UNCHANGED <<nextStartTime, sessionPromise, cpc, tstate, opened, clock, handlers,
                   scheduled, nResponses, audioLog, lastHandled, nConnects, nMsgs,
                   nFrames, nReports, levels>>

\* ---- the transport's onclose (lines 74-77) and onerror (lines 78-81) ----
onclose(k) ==
    /\ tstate[k] \in {"open", "errored"}
    /\ tstate' = [tstate EXCEPT ![k] = "closed"]
    /\ Release
    /\ status' = "Disconnected"
    /\ Observe(2)
    /\ UNCHANGED <<nextStartTime, sessionPromise, cpc, opened, clock, handlers,
                   scheduled, nResponses, audioLog, lastHandled, nConnects, nStops, nMsgs,
                   nFrames, nReports, levels>>

onerror(k) ==
    /\ tstate[k] \in {"connecting", "open"}
    /\ tstate' = [tstate EXCEPT ![k] = "errored"]
    /\ status' = "Connection Error"
    /\ Observe(0)
    /\ UNCHANGED <<fields, cpc, opened, heldIn, heldOut, liveTracks, liveProcs,
                   liveSources, clock, handlers, scheduled, nResponses, audioLog,
                   lastHandled, nConnects, nStops, nMsgs, nFrames, nReports, levels>>

\* ---- handleMessage (lines 143-183), called by the transport's onmessage ----

\* lines 163-182: the tool calls of one message, run to the end of the handler
HandleToolCalls(toolCall) ==
    LET r == CollectResponses(toolCall.functionCalls)
        out == IF toolCall.has THEN ToolResponseBatches(r.responses, currentSession)
               ELSE <<>>
    IN /\ nReports' = nReports + Len(r.reports)
       /\ nResponses' = nResponses + SumLen(out)
       /\ lastHandled' = [calls |-> toolCall.functionCalls,
                          responses |-> r.responses, reports |-> r.reports,
                          batches |-> out]

\* lines 145-151 up to the await of decodeAudioData; without audio (or without an
\* output context) the handler runs to its end at once
handleMessage(k, m, now) ==
    /\ tstate[k] = "open"
    /\ nMsgs' = nMsgs + 1
    /\ IF m.audio.has /\ outputAudioContext # Null
       THEN /\ now >= clock
            /\ clock' = now
            /\ nextStartTime' = MaxStart(nextStartTime, now)
            /\ handlers' = handlers \cup
                   {[n |-> nMsgs + 1, dur |-> m.audio.dur, ok |-> m.audio.ok,
                     toolCall |-> m.toolCall, arrClock |-> now,
                     stalled |-> now > nextStartTime]}
            /\ UNCHANGED <<nReports, nResponses, lastHandled>>
       ELSE /\ now = clock
            /\ HandleToolCalls(m.toolCall)
            /\ UNCHANGED <<nextStartTime, handlers, clock>>
    /\ Observe(0)
    /\ UNCHANGED <<inputAudioContext, outputAudioContext, stream, processor, source,
                   sessionPromise, currentSession, cpc, tstate, opened, heldIn,
                   heldOut, liveTracks, liveProcs, liveSources, status,
                   scheduled, audioLog, nConnects, nStops, nFrames, levels>>

\* the await of line 151 resumes: lines 152-159 (a decode error, or a field that
\* became null meanwhile, lands in the catch), then lines 163-182
DecodeDone(h, now) ==
    /\ h \in handlers
    /\ handlers' = handlers \ {h}
    /\ IF DecodeSucceeds(h.ok, outputAudioContext)
       THEN /\ now >= clock
            /\ clock' = now
            /\ scheduled' = Append(scheduled,
                   [start |-> nextStartTime, dur |-> h.dur, now |-> now])
            /\ nextStartTime' = AdvanceCursor(nextStartTime, h.dur)
       ELSE /\ now = clock
            /\ UNCHANGED <<scheduled, nextStartTime, clock>>
    /\ HandleToolCalls(h.toolCall)
    /\ Observe(0)
    /\ UNCHANGED <<inputAudioContext, outputAudioContext, stream, processor, source,
                   sessionPromise, currentSession, cpc, tstate, opened, heldIn,
                   heldOut, liveTracks, liveProcs, liveSources, status,
                   audioLog, nConnects, nStops, nMsgs, nFrames, levels>>

\* ---- processor.onaudioprocess (lines 113-137), one captured frame ----
onaudioprocess(p, frame) ==
    /\ p \in liveProcs
    /\ nFrames' = nFrames + 1
    /\ levels' = Append(levels, Level(frame))
    /\ audioLog' = SendRealtimeInput(audioLog, nFrames + 1, currentSession)
    /\ Observe(0)
    /\ UNCHANGED <<fields, platform, status, scheduled, nResponses, lastHandled,
                   nConnects, nStops, nMsgs, nReports>>

\* ---- the whole program, under every order of its callbacks ----
Next ==
    \/ (MoreOps /\ ConnectStart)
    \/ \E k \in Ids : ConnectResumedIn(k)
    \/ \E k \in Ids : ConnectResumedOut(k)
    \/ \E k \in Ids : MicGranted(k)
    \/ \E k \in Ids : MicDenied(k)
    \/ \E k \in Ids : ConnectResolved(k)
    \/ \E k \in Ids : handleOpen(k)
    \/ \E k \in Ids : onclose(k)
    \/ \E k \in Ids : onerror(k)
    \/ (MoreOps /\ nMsgs < MaxMsgs /\
          \E k \in Ids, m \in ShortMessage, now \in 0..MaxClock : handleMessage(k, m, now))
    \/ \E h \in handlers, now \in 0..MaxClock : DecodeDone(h, now)
    \/ (MoreOps /\ nFrames < MaxFrames /\ \E p \in Ids, frame \in Frames : onaudioprocess(p, frame))
    \/ (MoreOps /\ nStops < MaxStops /\ stop)

Spec == Init /\ [][Next]_vars

\* ---- one session and its inbound audio: the playback scheduler ----
AudioMessage == [audio : AudioParts, toolCall : {NoToolCall}]

NextPlay ==
    \/ (nConnects = 0 /\ ConnectStart)
    \/ \E k \in Ids : ConnectResumedIn(k)
    \/ \E k \in Ids : ConnectResumedOut(k)
    \/ \E k \in Ids : MicGranted(k)
    \/ \E k \in Ids : ConnectResolved(k)
    \/ \E k \in Ids : handleOpen(k)
    \/ (nMsgs < MaxChunks /\
          \E k \in Ids, m \in AudioMessage, now \in 0..MaxClock : handleMessage(k, m, now))
    \/ \E h \in handlers, now \in 0..MaxClock : DecodeDone(h, now)
    \/ (nStops = 0 /\ stop)

SpecPlay == Init /\ [][NextPlay]_vars

\* ---- one session and one inbound message: the tool-call mediator ----
NextCalls ==
    \/ (nConnects = 0 /\ ConnectStart)
    \/ \E k \in Ids : ConnectResumedIn(k)
    \/ \E k \in Ids : ConnectResumedOut(k)
    \/ \E k \in Ids : MicGranted(k)
    \/ \E k \in Ids : ConnectResolved(k)
    \/ \E k \in Ids : handleOpen(k)
    \/ (nMsgs = 0 /\
          \E k \in Ids, m \in LiveServerMessage, now \in 0..MaxClock : handleMessage(k, m, now))
    \/ \E h \in handlers, now \in 0..MaxClock : DecodeDone(h, now)
    \/ (nStops = 0 /\ stop)

SpecCalls == Init /\ [][NextCalls]_vars

\* ---- sessions one after the other: connect() only once the last one is stopped ----
Idle == ~Connecting /\ outputAudioContext = Null /\ currentSession = Null

NextRestart ==
    \/ (Idle /\ ConnectStart)
    \/ \E k \in Ids : ConnectResumedIn(k)
    \/ \E k \in Ids : ConnectResumedOut(k)
    \/ \E k \in Ids : MicGranted(k)
    \/ \E k \in Ids : ConnectResolved(k)
    \/ \E k \in Ids : handleOpen(k)
    \/ (nMsgs < MaxMsgs /\
          \E k \in Ids, m \in AudioMessage, now \in 0..MaxClock : handleMessage(k, m, now))
    \/ \E h \in handlers, now \in 0..MaxClock : DecodeDone(h, now)
    \/ (nStops = 0 /\ IsLive /\ stop)

SpecRestart == Init /\ [][NextRestart]_vars

\* ---- one session and its captured frames: the capture pipeline ----
NextCapture ==
    \/ (nConnects = 0 /\ ConnectStart)
    \/ \E k \in Ids : ConnectResumedIn(k)
    \/ \E k \in Ids : ConnectResumedOut(k)
    \/ \E k \in Ids : MicGranted(k)
    \/ \E k \in Ids : ConnectResolved(k)
    \/ \E k \in Ids : handleOpen(k)
    \/ (nFrames < MaxCaptured /\ \E p \in Ids, frame \in Frames : onaudioprocess(p, frame))
    \/ (nStops = 0 /\ stop)

SpecCapture == Init /\ [][NextCapture]_vars

\* ---- one session and its audio chunks, decodable or not, with their tool calls ----
NextDecode ==
    \/ (nConnects = 0 /\ ConnectStart)
    \/ \E k \in Ids : ConnectResumedIn(k)
    \/ \E k \in Ids : ConnectResumedOut(k)
    \/ \E k \in Ids : MicGranted(k)
    \/ \E k \in Ids : ConnectResolved(k)
    \/ \E k \in Ids : handleOpen(k)
    \/ (nMsgs < MaxMsgs /\
          \E k \in Ids, m \in DecodeMessage, now \in 0..MaxClock : handleMessage(k, m, now))
    \/ \E h \in handlers, now \in 0..MaxClock : DecodeDone(h, now)
    \/ (nStops = 0 /\ stop)

SpecDecode == Init /\ [][NextDecode]_vars

\* ======================= the claims =======================

\* C1: two stop() calls in succession from the Live state notify the terminal
\* status 'Disconnected' exactly once.
C1_StopTwiceNotifiesOnce == stopRun = 2 => termRun = 1

\* C2: a teardown (remote close, stop()) gives onStatusChange the terminal status
\* exactly once: no single operation notifies it twice.
C2_TerminalNotifiedOnce == lastTerm <= 1

\* C3: a message with k calls named 'reportEmergency' and m others produces exactly
\* k responses, in the order of the recognized calls and with their id and name,
\* and calls onReportSubmitted k times with their args, in that order.
Recognized(calls) == {i \in DOMAIN calls : calls[i].name = "reportEmergency"}
Rank(calls, i) == Cardinality({j \in Recognized(calls) : j <= i})
C3_ToolCallCompleteness ==
    LET c == lastHandled.calls
        r == lastHandled.responses
        a == lastHandled.reports
    IN /\ Len(r) = Cardinality(Recognized(c))
       /\ Len(a) = Cardinality(Recognized(c))
       /\ \A i \in Recognized(c) :
             /\ r[Rank(c, i)].id = c[i].id
             /\ r[Rank(c, i)].name = c[i].name
             /\ a[Rank(c, i)] = c[i].args

\* a handled message with two recognized calls around an unrecognized one
C3_Witness ==
    /\ Len(lastHandled.calls) = 3
    /\ lastHandled.calls[1].name = "reportEmergency"
    /\ lastHandled.calls[2].name = "other"
    /\ lastHandled.calls[3].name = "reportEmergency"
    /\ lastHandled.calls[1].id > lastHandled.calls[3].id
    /\ lastHandled.calls[1].args # lastHandled.calls[3].args
    /\ Len(lastHandled.responses) = 2

\* C4: every recognized call handled has had its response sent to the transport:
\* the responses sent are as many as the onReportSubmitted calls.
C4_ResponseSentPerCall == nResponses = nReports

\* C5: inbound messages are handled one at a time: no handleMessage starts while
\* another one is suspended in its decode.
C5_OneMessageAtATime == Cardinality(handlers) <= 1

\* C6: within a session the start times given to playback never decrease, a
\* chunk starts where the previous one ends whenever the output clock has not
\* passed that point by the time the chunk is started, and nextStartTime never
\* decreases.
PlaybackChained ==
    \A i \in 1..(Len(scheduled) - 1) :
        LET end == scheduled[i].start + scheduled[i].dur
        IN /\ scheduled[i + 1].start >= scheduled[i].start
           /\ scheduled[i + 1].now <= end => scheduled[i + 1].start = end
C6_PlaybackMonotone ==
    /\ []PlaybackChained
    /\ [][nextStartTime' >= nextStartTime]_vars

\* three chunks scheduled: the second after a stall, the third chained to the second
C6_Witness ==
    /\ Len(scheduled) = 3
    /\ scheduled[2].start > scheduled[1].start + scheduled[1].dur
    /\ scheduled[3].now <= scheduled[2].start + scheduled[2].dur
    /\ scheduled[3].start = scheduled[2].start + scheduled[2].dur

\* C7: a chunk that arrives after the output clock passed nextStartTime starts at
\* the clock time read on its arrival, and nextStartTime becomes that time plus
\* the chunk's duration.
C7_StallRecovery ==
    [][\A h \in handlers :
          (h \notin handlers' /\ h.stalled /\ Len(scheduled') = Len(scheduled) + 1)
              => /\ scheduled'[Len(scheduled')].start = h.arrClock
                 /\ nextStartTime' = h.arrClock + h.dur]_vars

\* C8: no buffer is started in the past: the time given to source.start is at
\* least the output clock's time at that call.
C8_NeverInThePast ==
    \A i \in DOMAIN scheduled : scheduled[i].start >= scheduled[i].now

\* C9: a connect() issued while a connect() is in progress or the session is Live
\* creates no second pair of audio contexts.
C9_SingleSession ==
    [][((Connecting \/ IsLive) /\ nConnects' > nConnects)
          => (heldIn' \subseteq heldIn /\ heldOut' \subseteq heldOut)]_vars

\* C10: once a teardown (stop() or remote close) has run, nothing the session
\* acquired is still held: contexts, tracks, capture nodes, transport connection.
C10_AllReleased ==
    lastTerm >= 1 =>
        /\ heldIn = {} /\ heldOut = {}
        /\ liveTracks = {} /\ liveProcs = {} /\ liveSources = {}
        /\ \A k \in Ids : tstate[k] \notin {"connecting", "open"}

\* C11: a transport error tears the session down: with the onerror callback the
\* error is reported and the session's capture nodes, microphone stream, audio
\* contexts and session handle are released.
C11_ErrorTearsDown ==
    [][\A k \in Ids :
          (tstate[k] # "errored" /\ tstate'[k] = "errored")
              => /\ status' \in {"Connection Error", "Disconnected"}
                 /\ k \notin heldIn' /\ k \notin heldOut'
                 /\ k \notin liveTracks' /\ k \notin liveProcs' /\ k \notin liveSources'
                 /\ currentSession' = Null]_vars

\* C12: a microphone request that fails during connect() is reported through
\* onStatusChange, opens no transport connection and leaves no audio context of
\* that connect() held.
C12_AcquisitionFailureReported ==
    [][\A k \in Ids :
          (cpc[k] = "getMic" /\ cpc'[k] = "failed")
              => /\ status' \notin {"Initializing Audio...", "Requesting Mic..."}
                 /\ tstate'[k] = "none"
                 /\ k \notin heldIn' /\ k \notin heldOut']_vars

\* C13: once the terminal status of a session was notified, no non-terminal
\* status is notified until the next connect().
C13_NothingAfterTerminal ==
    [][(status = "Disconnected" /\ nConnects' = nConnects)
          => status' \in {"Disconnected", "Connection Error"}]_vars

\* C17: the first chunk of every session starts at the output clock's time, not
\* later: not at a cursor left over from an earlier session.
C17_FirstChunkAtClock ==
    Len(scheduled) >= 1 => scheduled[1].start <= scheduled[1].now

\* C20: after stop() has run and until the next connect(), nothing is sent to
\* the transport and no buffer is scheduled.
C20_SilentAfterStop ==
    [][(outputAudioContext = Null /\ nConnects' = nConnects)
          => /\ audioLog' = audioLog
             /\ nResponses' = nResponses
             /\ scheduled' = scheduled]_vars

\* C14: with the transport handle stored, every captured frame gives one
\* onAudioLevel call and one realtime-input message tagged 'audio/pcm;rate=16000'
\* for that frame; the level is 0 exactly for a silent frame; the messages sent
\* are in capture order, none twice.
RealtimeInput(n, session) ==
    [frame |-> n, sess |-> session, mimeType |-> "audio/pcm;rate=16000"]
Silent(frame) == \A i \in DOMAIN frame : frame[i] = 0
SentInCaptureOrder ==
    /\ \A i, j \in DOMAIN audioLog : i < j => audioLog[i].frame < audioLog[j].frame
    /\ \A f \in Frames : Level(f) = 0 <=> Silent(f)
C14_OneMessagePerFrame ==
    /\ []SentInCaptureOrder
    /\ [][(nFrames' = nFrames + 1 /\ currentSession # Null)
             => /\ Len(levels') = Len(levels) + 1
                /\ audioLog' = Append(audioLog, RealtimeInput(nFrames', currentSession))]_vars

\* three frames captured and sent, the second one silent
C14_Witness ==
    /\ nFrames = 3 /\ Len(audioLog) = 3
    /\ levels[1] > 0 /\ levels[2] = 0 /\ levels[3] > 0
    /\ audioLog[3].frame = 3

\* C15: a frame captured while the transport handle is absent is dropped: nothing
\* is sent, the status and every field stay as they were, the level callback is
\* the only effect; and whatever is sent later is the frame captured in that
\* step, never a frame kept from before.
C15_FrameDropped ==
    /\ [][(nFrames' = nFrames + 1 /\ currentSession = Null)
             => /\ audioLog' = audioLog
                /\ Len(levels') = Len(levels) + 1
                /\ UNCHANGED <<fields, platform, status, scheduled, nResponses,
                               lastHandled, nReports>>]_vars
    /\ [][audioLog' # audioLog
             => /\ nFrames' = nFrames + 1
                /\ Len(audioLog') = Len(audioLog) + 1
                /\ audioLog'[Len(audioLog')].frame = nFrames']_vars

\* the first frame came before connect() stored the session and was never sent;
\* the second one was sent
C15_Witness ==
    /\ nFrames = 2
    /\ Len(audioLog) = 1
    /\ audioLog[1].frame = 2

\* C16: when the decode of a chunk fails, no buffer is scheduled, nextStartTime
\* and the status stay as they were, and the tool calls of that message are
\* handled as for any message; a chunk that decodes is scheduled at the cursor
\* whatever failed before it.
C16_DecodeFailureAbsorbed ==
    [][\A h \in handlers :
          h \notin handlers' =>
             LET calls == h.toolCall.functionCalls
                 k == Cardinality(Recognized(calls))
             IN /\ ~h.ok =>
                      /\ scheduled' = scheduled
                      /\ nextStartTime' = nextStartTime
                      /\ status' = status
                      /\ lastHandled'.calls = calls
                      /\ Len(lastHandled'.responses) = k
                      /\ nReports' = nReports + k
                      /\ nResponses' = nResponses + (IF currentSession # Null THEN k ELSE 0)
                /\ (h.ok /\ outputAudioContext # Null) =>
                      scheduled' = Append(scheduled,
                          [start |-> nextStartTime, dur |-> h.dur, now |-> clock'])]_vars

\* the first chunk failed to decode and its tool call was handled and answered;
\* the second chunk, decodable, is being decoded
C16_Witness ==
    /\ nStops = 0 /\ nMsgs = 2 /\ scheduled = <<>>
    /\ nReports = 1 /\ nResponses = 1
    /\ \E h \in handlers : handlers = {h} /\ h.n = 2 /\ h.ok /\ ~h.toolCall.has

\* C18: a message leads to at most one sendToolResponse call, which carries all
\* the responses of the message in call order; no call is made for a message
\* without a recognized function call.
C18_OneBatchPerMessage ==
    LET c == lastHandled.calls
        b == lastHandled.batches
    IN /\ Len(b) <= 1
       /\ Recognized(c) = {} => b = <<>>
       /\ Len(b) = 1 =>
             /\ Len(b[1]) = Cardinality(Recognized(c))
             /\ \A i \in Recognized(c) : b[1][Rank(c, i)].id = c[i].id

\* a message with three recognized calls, ids out of order, answered in one call
C18_Witness ==
    /\ Len(lastHandled.calls) = 3
    /\ Recognized(lastHandled.calls) = {1, 2, 3}
    /\ lastHandled.calls[1].id > lastHandled.calls[2].id
    /\ Len(lastHandled.batches) = 1
    /\ Len(lastHandled.batches[1]) = 3

\* C19: the playback intervals of any two buffers scheduled in a session do not
\* overlap; a buffer is started at the cursor and the cursor moves by its
\* duration in the same step.
NoOverlap ==
    \A i, j \in DOMAIN scheduled :
        i < j => scheduled[i].start + scheduled[i].dur <= scheduled[j].start
C19_IntervalsDisjoint ==
    /\ []NoOverlap
    /\ [][Len(scheduled') = Len(scheduled) + 1
             => /\ scheduled'[Len(scheduled')].start = nextStartTime
                /\ nextStartTime' = nextStartTime + scheduled'[Len(scheduled')].dur]_vars

\* the second and third chunk are scheduled while the first is still in its decode
C19_Witness ==
    /\ Len(scheduled) = 2
    /\ scheduled[1].dur >= 1 /\ scheduled[2].dur >= 1
    /\ \E h \in handlers : h.n = 1

====
